---- MODULE Spec2Model ----
(***************************************************************************)
(* Model of the Ticker collector: ApiClient.get_realtime_orderbook (the    *)
(* scheduler), ApiClient._store_trading_history (one accumulation task per *)
(* exchange), the window aggregation, the day rollover and the program's   *)
(* shutdown in main_ticker.py.                                             *)
(*                                                                         *)
(* The program is one asyncio event loop: the code between two awaits runs *)
(* without interleaving.  The wall clock is in whole seconds; a calendar   *)
(* day of the model is DayLen seconds long.                                *)
(***************************************************************************)
EXTENDS Integers, Sequences, FiniteSets, TLC

\* ------------------------------------------------------------------ bounds
MaxClock == 11        \* the clock stops advancing here
MaxTrades == 3        \* trade events a feed delivers over a run
MaxBatch == 2         \* trade events one feed message can carry
MaxLiqs == 1          \* liquidation events a feed delivers over a run
MaxOIs == 3           \* open-interest updates a feed delivers over a run
MaxBookMsgs == 1      \* order-book messages a feed delivers over a run
MaxExtra == 1         \* feed messages over a run beyond the first order-book
                      \* and the first trade message of each exchange
MaxLate == 1          \* seconds a timer can fire after it is due
MaxDepth == 3         \* levels of a raw order-book snapshot

\* the seconds the program can start at: on an interval boundary or not
StartClocks == {0, 3}

\* ------------------------------------------------------- program constants
Interval == 5         \* `datetime.now().second % 5`, `asyncio.sleep(5)`
WarningLimit == 5     \* `if self.warning_count > 5`
SleepAfterCycle == 1  \* `await asyncio.sleep(1)`

\* seconds in one calendar day of the model: midnight is an interval boundary
DayLen == 2 * Interval

\* ----------------------------------------------------------- configuration
BYBIT == "bybit"
FTX == "ftx"
BITMEX == "bitmex"

\* params.EXCHANGES: the shipped list, and lists of two of the exchanges the
\* TODO of params.py names (the stores, URLs and trade id keys of all three
\* are configured).  A run with two exchanges sees only the first order-book
\* and the first trade message of each.
Setups ==
    { [EXCHANGES |-> <<BYBIT>>, extra |-> MaxExtra],
      [EXCHANGES |-> <<BYBIT, BITMEX>>, extra |-> 0],
      [EXCHANGES |-> <<BYBIT, FTX>>, extra |-> 0] }

\* the attributes the pybotters store of an exchange exposes (params.STORES)
StoreAttrs(e) ==
    IF e = FTX THEN {"orderbook", "trades"}
    ELSE {"orderbook", "trade", "liquidation", "instrument"}

\* the streams params.SEND_JSONS subscribes to, by store attribute
Subscribed(e) ==
    CASE e = BYBIT  -> {"orderbook", "trade", "instrument", "liquidation"}
      [] e = FTX    -> {"orderbook", "trades"}
      [] e = BITMEX -> {"orderbook", "trade"}

\* params.TRADE_IDS / LIQUIDATION_IDS / OI_IDS: the exchanges that have a key
TRADE_IDS == {BYBIT, FTX, BITMEX}
LIQUIDATION_IDS == {BYBIT}
OI_IDS == {BYBIT}

\* ------------------------------------------------------------ small helpers
None == <<>>
Some(v) == <<v>>

Range(s) == { s[i] : i \in 1..Len(s) }

Max(S) == CHOOSE x \in S : \A y \in S : y <= x
Min(S) == CHOOSE x \in S : \A y \in S : x <= y

RECURSIVE SumSeq(_)
SumSeq(s) == IF s = <<>> THEN 0 ELSE s[1] + SumSeq(Tail(s))

RECURSIVE Filter(_, _)
Filter(s, side) ==
    IF s = <<>> THEN <<>>
    ELSE IF s[1].side = side THEN <<s[1]>> \o Filter(Tail(s), side)
    ELSE Filter(Tail(s), side)

Prices(cps) == [i \in 1..Len(cps) |-> cps[i].price]

\* str.lower() on the side strings the feeds use
Lower(side) ==
    CASE side = "Buy"  -> "buy"
      [] side = "Sell" -> "sell"
      [] OTHER         -> side

\* str.capitalize() on the side strings the feeds use
Capitalize(side) ==
    CASE side \in {"buy", "Buy", "BUY"}    -> "Buy"
      [] side \in {"sell", "Sell", "SELL"} -> "Sell"
      [] OTHER                             -> side

\* datetime.date() of a clock value
DateOf(t) == t \div DayLen

\* ---------------------------------------------------------------- the feeds
\* The k-th trade a feed delivers (k >= 1).  The first one is what makes the
\* feed ready, at a price above the later ones; the next three are
\* (buy,100,1), (sell,101,2), (buy,102,3).
TradeAt(k) ==
    [id    |-> k,
     side  |-> IF k % 2 = 0 THEN "Buy" ELSE "Sell",
     price |-> IF k = 1 THEN 103 ELSE 98 + k,
     size  |-> IF k = 1 THEN 1 ELSE k - 1]

\* The k-th liquidation: its id is its `time` field
LiquidationAt(k) ==
    [id |-> k, side |-> IF k % 2 = 1 THEN "Buy" ELSE "Sell", qty |-> k]

\* The k-th state of the instrument record: open interest is its own id
InstrumentAt(k) == [open_interest |-> 10 + (k % 2)]

\* Raw order books a feed can hold; 0 is the empty store
Level(id, side, price, size) ==
    [id |-> id, symbol |-> "BTCUSD", side |-> side, price |-> price, size |-> size]

Books ==
    << << Level(1, "Buy", 100, 1), Level(2, "Buy", 99, 2), Level(3, "Buy", 101, 3),
          Level(4, "Sell", 105, 1), Level(5, "Sell", 104, 2) >>,
       << Level(1, "Sell", 104, 2), Level(2, "Buy", 101, 3) >> >>

\* raw snapshots of at most MaxDepth levels: sides as the feeds spell them,
\* prices and sizes that repeat
BookSides == {"Buy", "sell"}
BookPrices == {1, 2}
BookSizes == {1, 2}

Snapshots ==
    UNION { { [i \in 1..n |-> Level(i, f[i][1], f[i][2], f[i][3])] :
                f \in [1..n -> BookSides \X BookPrices \X BookSizes] } :
            n \in 1..MaxDepth }

\* store.<stream>.find(): the snapshot, oldest first
TradeSnapshot(n) == [k \in 1..n |-> TradeAt(k)]
LiquidationSnapshot(n) == [k \in 1..n |-> LiquidationAt(k)]
InstrumentSnapshot(n) == IF n = 0 THEN <<>> ELSE <<InstrumentAt(n)>>


\* -------------------------------------------------------- window aggregation
\* variant: a zero volume gives the average 0 instead of None
AvgOrZero(sum, volume) ==
    IF volume = 0 THEN Some([num |-> 0, den |-> 1])
    ELSE Some([num |-> sum, den |-> volume])

\* sum(...) / volume with `except ZeroDivisionError`: an exact fraction
Avg(sum, volume) ==
    IF volume = 0 THEN None ELSE Some([num |-> sum, den |-> volume])

\* variant: prices default to 0 instead of None
OhlcvZero ==
    [open |-> Some(0), high |-> Some(0), low |-> Some(0), close |-> Some(0),
     buy_volume |-> 0, sell_volume |-> 0,
     buy_price_avg |-> None, sell_price_avg |-> None]

\* Ohlcv.__init__ with its defaults: Ohlcv()
OhlcvDefault ==
    [open |-> None, high |-> None, low |-> None, close |-> None,
     buy_volume |-> 0, sell_volume |-> 0,
     buy_price_avg |-> None, sell_price_avg |-> None]

\* variant: high and low are taken where open and close are
OhlcvEnds(cps, buy_volume, sell_volume) ==
    [open  |-> Some(cps[1].price),
     high  |-> Some(cps[Len(cps)].price),
     low   |-> Some(cps[1].price),
     close |-> Some(cps[Len(cps)].price),
     buy_volume  |-> buy_volume,
     sell_volume |-> sell_volume,
     buy_price_avg  |-> Avg(SumSeq(Prices(Filter(cps, "buy"))), buy_volume),
     sell_price_avg |-> Avg(SumSeq(Prices(Filter(cps, "sell"))), sell_volume)]

\* Ohlcv.__init__ with a list of contract prices
Ohlcv(cps, buy_volume, sell_volume) ==
    [open  |-> Some(cps[1].price),
     high  |-> Some(Max(Range(Prices(cps)))),
     low   |-> Some(Min(Range(Prices(cps)))),
     close |-> Some(cps[Len(cps)].price),
     buy_volume  |-> buy_volume,
     sell_volume |-> sell_volume,
     buy_price_avg  |-> Avg(SumSeq(Prices(Filter(cps, "buy"))), buy_volume),
     sell_price_avg |-> Avg(SumSeq(Prices(Filter(cps, "sell"))), sell_volume)]

LiquidationQty(buy_liq_qty, sell_liq_qty) ==
    [buy_liq_qty |-> buy_liq_qty, sell_liq_qty |-> sell_liq_qty]

OIohlcDefault ==
    [oi_open |-> None, oi_high |-> None, oi_low |-> None, oi_close |-> None]

\* variant: the range taken from the ends of the list
OIohlcEnds(ois) ==
    [oi_open  |-> Some(ois[1]),
     oi_high  |-> Some(ois[Len(ois)]),
     oi_low   |-> Some(ois[1]),
     oi_close |-> Some(ois[Len(ois)])]

\* OIohlc.__init__ with a list of open-interest values
OIohlc(ois) ==
    [oi_open  |-> Some(ois[1]),
     oi_high  |-> Some(Max(Range(ois))),
     oi_low   |-> Some(Min(Range(ois))),
     oi_close |-> Some(ois[Len(ois)])]

\* one exchange's entry of _create_ohlcvs
CreateOhlcv(acc) ==
    IF Len(acc.contract_prices) # 0
    THEN Ohlcv(acc.contract_prices, acc.buy_volume, acc.sell_volume)
    ELSE OhlcvDefault

\* one exchange's entry of _create_liquidation_qty
CreateLiquidationQty(acc) ==
    LiquidationQty(acc.buy_liquidation_qty, acc.sell_liquidation_qty)

\* one exchange's entry of _create_oi_ohlc
CreateOiOhlc(acc) ==
    IF Len(acc.OIs) # 0 THEN OIohlc(acc.OIs) ELSE OIohlcDefault

\* ------------------------------------------------------------- order books
\* extract_dict(dict_, ['size', 'price'])
extract_dict(d) == [size |-> d.size, price |-> d.price]

\* list.sort(key=price): stable insertion, ascending
RECURSIVE InsertAsc(_, _)
InsertAsc(x, s) ==
    IF s = <<>> THEN <<x>>
    ELSE IF x.price < s[1].price THEN <<x>> \o s
    ELSE <<s[1]>> \o InsertAsc(x, Tail(s))

\* list.sort(key=price, reverse=True): stable insertion, descending
RECURSIVE InsertDesc(_, _)
InsertDesc(x, s) ==
    IF s = <<>> THEN <<x>>
    ELSE IF x.price > s[1].price THEN <<x>> \o s
    ELSE <<s[1]>> \o InsertDesc(x, Tail(s))

RECURSIVE SortAsc(_)
SortAsc(s) ==
    IF s = <<>> THEN <<>>
    ELSE InsertAsc(s[Len(s)], SortAsc(SubSeq(s, 1, Len(s) - 1)))

RECURSIVE SortDesc(_)
SortDesc(s) ==
    IF s = <<>> THEN <<>>
    ELSE InsertDesc(s[Len(s)], SortDesc(SubSeq(s, 1, Len(s) - 1)))

RECURSIVE SideLevels(_, _)
SideLevels(orderbook, side) ==
    IF orderbook = <<>> THEN <<>>
    ELSE IF Capitalize(orderbook[1].side) = side
         THEN <<extract_dict(orderbook[1])>> \o SideLevels(Tail(orderbook), side)
         ELSE SideLevels(Tail(orderbook), side)

\* ApiClient._parse_orderbook
_parse_orderbook(orderbook) ==
    [Buy  |-> SortDesc(SideLevels(orderbook, "Buy")),
     Sell |-> SortAsc(SideLevels(orderbook, "Sell"))]

\* variant: the loop walks `orderbook` itself, extract_dict deletes the
\* unwanted keys of the caller's dicts
StrippedInPlace(orderbook) ==
    [i \in 1..Len(orderbook) |-> extract_dict(orderbook[i])]

\* what _parse_orderbook leaves in the list it was passed: the loop walks
\* deepcopy(orderbook), extract_dict deletes keys of the copies only
AfterParse(orderbook) == orderbook

\* Ticker.__init__
Ticker(ts, ohlcv, liquidation_qty, oi_ohlc, orderbook) ==
    [timestamp |-> ts,
     open |-> ohlcv.open, high |-> ohlcv.high, low |-> ohlcv.low,
     close |-> ohlcv.close,
     buy_volume |-> ohlcv.buy_volume, sell_volume |-> ohlcv.sell_volume,
     buy_price_avg |-> ohlcv.buy_price_avg,
     sell_price_avg |-> ohlcv.sell_price_avg,
     buy_liq_qty |-> liquidation_qty.buy_liq_qty,
     sell_liq_qty |-> liquidation_qty.sell_liq_qty,
     oi_open |-> oi_ohlc.oi_open, oi_high |-> oi_ohlc.oi_high,
     oi_low |-> oi_ohlc.oi_low, oi_close |-> oi_ohlc.oi_close,
     orderbook |-> orderbook]


\* -------------------------------------------------------------------- state
VARIABLES
    clock,                   \* datetime.now(), in seconds
    EXCHANGES,               \* params.EXCHANGES, fixed over a run
    store_dict,              \* the feed's stores: what each stream holds
    extra,                   \* feed messages still to come beyond the first
                             \* of each store
    pc,                      \* where get_realtime_orderbook stands
    wakeAt,                  \* when the pending asyncio.sleep(n) is due
    timestamp,               \* the cycle's local `timestamp`
    ohlcv_dict,              \* the cycle's local dicts
    liquidation_qty_dict,
    oi_ohlc_dict,
    warning_count,           \* ApiClient.warning_count
    today,                   \* ApiClient.today
    df_dict,                 \* ApiClient.df_dict: the buffers
    trade_ids_dict,          \* TradingHistoryStorage.trade_ids_dict (class)
    liquidation_ids_dict,    \* TradingHistoryStorage.liquidation_ids_dict
    trading_history_storage, \* ApiClient.trading_history_storage
    task,                    \* each _store_trading_history task
    proc,                    \* the process: running or exited
    cause,                   \* what ended the process
    gcs,                     \* the bucket: one blob per day and exchange
    calls,                   \* the uploads made by the latest step that
                             \* called save_ticker, in order
    \* history variables: they record what happened and steer nothing
    failRun,                 \* failed cycles since the last successful one
    retried,                 \* the cycle attempt under way started in the
                             \* second in which the attempt before it failed
    seen,                    \* the trade snapshot each task folded last
    startFrom,               \* trades delivered before each task's first pass
    folded,                  \* prices each task folded, in order
    closed                   \* prices of the windows closed so far, in order

vars == << clock, EXCHANGES, store_dict, extra, pc, wakeAt, timestamp,
           ohlcv_dict, liquidation_qty_dict, oi_ohlc_dict, warning_count,
           today, df_dict, trade_ids_dict, liquidation_ids_dict,
           trading_history_storage, task, proc, cause, gcs, calls, failRun,
           retried, seen, startFrom, folded, closed >>

localVars == << ohlcv_dict, liquidation_qty_dict, oi_ohlc_dict >>
cursorVars == << trade_ids_dict, liquidation_ids_dict >>
sinkVars == << gcs, calls >>
taskHistory == << seen, startFrom, folded >>
counterVars == << warning_count, failRun, retried >>

Exs == Range(EXCHANGES)

\* datetime.now().second
Second(t) == t % 60

\* variant: the loops wait for the start of a minute
AlignedOnMinute == Second(clock) = 0

\* `datetime.now().second % 5 != 0` is false
Aligned == Second(clock) % Interval = 0

\* TradingHistoryStorage.__init__, one exchange's entries
FreshAccumulator ==
    [contract_prices |-> <<>>, buy_volume |-> 0, sell_volume |-> 0,
     buy_liquidation_qty |-> 0, sell_liquidation_qty |-> 0,
     OIids |-> None, OIs |-> <<>>]

\* TradingHistoryStorage()
TradingHistoryStorage == [e \in Exs |-> FreshAccumulator]

\* variant: the cursors are re-created with every instance
InstanceAttribute(ids) == [e \in DOMAIN ids |-> None]

\* a class attribute of TradingHistoryStorage is not touched by constructing
\* a new instance
ClassAttribute(ids) == ids

\* pd.DataFrame(columns=params.COLUMNS) for every exchange
EmptyBuffers == [e \in Exs |-> <<>>]

EmptyStores ==
    [e \in Exs |-> [orderbook |-> <<>>, books |-> 0, trade |-> 0,
                    liquidation |-> 0, instrument |-> 0]]

NoLocal == <<>>

\* the awaits of get_realtime_orderbook: sleep(0) of the three wait loops,
\* sleep(5) and sleep(1)
Suspended == {"AwaitingReady", "Aligning", "Warming", "Sleeping", "Realigning"}

\* variant: tasks and handlers preempt the scheduler anywhere
Preemptive == proc = "running"

\* the event loop runs another task or a feed handler only while
\* get_realtime_orderbook is suspended at an await
LoopFree == proc = "running" /\ pc \in Suspended

Init ==
    /\ clock \in StartClocks
    /\ \E s \in Setups : EXCHANGES = s.EXCHANGES /\ extra = s.extra
    /\ store_dict = EmptyStores
    /\ pc = "AwaitingReady"
    /\ wakeAt = 0
    /\ timestamp = -1
    /\ ohlcv_dict = NoLocal
    /\ liquidation_qty_dict = NoLocal
    /\ oi_ohlc_dict = NoLocal
    /\ warning_count = 0
    /\ today = DateOf(clock)
    /\ df_dict = EmptyBuffers
    /\ trade_ids_dict = [e \in Exs |-> None]
    /\ liquidation_ids_dict = [e \in Exs |-> None]
    /\ trading_history_storage = TradingHistoryStorage
    /\ task = [e \in Exs |-> "unborn"]
    /\ proc = "running"
    /\ cause = "none"
    /\ gcs = {}
    /\ calls = <<>>
    /\ failRun = 0
    /\ retried = FALSE
    /\ seen = [e \in Exs |-> 0]
    /\ startFrom = [e \in Exs |-> 0]
    /\ folded = [e \in Exs |-> <<>>]
    /\ closed = [e \in Exs |-> <<>>]

\* ---------------------------------------------------------------- the sink
\* blob.upload_from_filename: the blob of that name is replaced
Upload(bucket, day, e, tickers) ==
    { b \in bucket : ~(b.day = day /\ b.exchange = e) }
        \cup { [day |-> day, exchange |-> e, tickers |-> tickers] }

RECURSIVE UploadAll(_, _)
UploadAll(bucket, cs) ==
    IF cs = <<>> THEN bucket
    ELSE UploadAll(
            IF cs[1].ok
            THEN Upload(bucket, cs[1].day, cs[1].exchange, cs[1].tickers)
            ELSE bucket,
            Tail(cs))

\* What the sink does to one save_ticker call: 0, every upload succeeds;
\* i in 1..n, the upload of the i-th exchange raises; n+1, the upload of the
\* log file raises.
SinkOutcomes == 0..(Len(EXCHANGES) + 1)

\* variant: the buffer of an exchange is emptied as soon as it is uploaded
ReinitAsUploaded(df, f) ==
    [e \in Exs |->
        IF f = 0 \/ \E i \in 1..Len(EXCHANGES) : EXCHANGES[i] = e /\ i < f
        THEN <<>> ELSE df[e]]

\* the buffers save_ticker leaves under sink outcome f: its last statement
\* replaces self.df_dict by empty frames for every exchange, and is reached
\* only when no upload raised
ReinitBuffers(df, f) == IF f = 0 THEN EmptyBuffers ELSE df

\* variant: save_ticker without its last statement, the buffers are kept
save_ticker_keep(df, bucket, f) ==
    LET n    == Len(EXCHANGES)
        last == IF f \in 1..n THEN f ELSE n
        cs   == [i \in 1..last |->
                    [exchange |-> EXCHANGES[i], day |-> today,
                     tickers |-> df[EXCHANGES[i]], ok |-> (i # f)]]
    IN  [calls   |-> cs,
         gcs     |-> UploadAll(bucket, cs),
         df_dict |-> df,
         raised  |-> (f # 0)]

\* ApiClient.save_ticker on buffers df and bucket, under sink outcome f
save_ticker(df, bucket, f) ==
    LET n    == Len(EXCHANGES)
        last == IF f \in 1..n THEN f ELSE n
        cs   == [i \in 1..last |->
                    [exchange |-> EXCHANGES[i], day |-> today,
                     tickers |-> df[EXCHANGES[i]], ok |-> (i # f)]]
    IN  [calls   |-> cs,
         gcs     |-> UploadAll(bucket, cs),
         df_dict |-> ReinitBuffers(df, f),
         raised  |-> (f # 0)]

\* variant: the test passes a day late, `if now > self.today + timedelta(1)`
DayAfterNext(now) == now > today + 1

\* `if now > self.today`: the date of the cycle is past the stored day
DayChanged(now) == now > today

\* variant: the day is advanced before save_ticker is called
_update_df_eager(now, ticker_dict, f) ==
    LET rollover == DayChanged(now)
        s  == save_ticker(df_dict, gcs, f)
        df == IF rollover THEN s.df_dict ELSE df_dict
    IN  IF rollover /\ s.raised
        THEN [calls |-> s.calls, gcs |-> s.gcs, df_dict |-> df_dict,
              today |-> now, raised |-> TRUE]
        ELSE [calls |-> IF rollover THEN s.calls ELSE <<>>,
              gcs |-> IF rollover THEN s.gcs ELSE gcs,
              df_dict |-> [e \in Exs |-> Append(df[e], ticker_dict[e])],
              today |-> IF rollover THEN now ELSE today,
              raised |-> FALSE]

\* ApiClient._update_df(now, ticker_dict) under sink outcome f
_update_df(now, ticker_dict, f) ==
    LET rollover == DayChanged(now)
        s  == save_ticker(df_dict, gcs, f)
        df == IF rollover THEN s.df_dict ELSE df_dict
    IN  IF rollover /\ s.raised
        THEN [calls |-> s.calls, gcs |-> s.gcs, df_dict |-> df_dict,
              today |-> today, raised |-> TRUE]
        ELSE [calls |-> IF rollover THEN s.calls ELSE <<>>,
              gcs |-> IF rollover THEN s.gcs ELSE gcs,
              df_dict |-> [e \in Exs |-> Append(df[e], ticker_dict[e])],
              today |-> IF rollover THEN now ELSE today,
              raised |-> FALSE]

\* ------------------------------------------------------------ main_ticker
\* asyncio.run ends (it cancels what is left of the tasks), then
\* `finally: api_client.save_ticker()` runs and the process exits; the
\* memory of the process is gone, the buffers shown are what save_ticker
\* left behind.  `cs` are the uploads the step made before.
Exit(why, df, bucket, cs, exiting) ==
    /\ \E f \in SinkOutcomes :
          LET s == save_ticker(df, bucket, f) IN
          /\ gcs' = s.gcs
          /\ calls' = cs \o s.calls
          /\ df_dict' = s.df_dict
    /\ proc' = "exited"
    /\ cause' = why
    /\ pc' = "Terminal"
    /\ task' = [e \in Exs |-> IF e \in exiting THEN "exited" ELSE "cancelled"]
    /\ wakeAt' = 0
    /\ ohlcv_dict' = NoLocal
    /\ liquidation_qty_dict' = NoLocal
    /\ oi_ohlc_dict' = NoLocal
    /\ store_dict' = EmptyStores
    /\ extra' = 0
    /\ trading_history_storage' = TradingHistoryStorage
    /\ trade_ids_dict' = [e \in Exs |-> None]
    /\ liquidation_ids_dict' = [e \in Exs |-> None]
    /\ seen' = [e \in Exs |-> 0]
    /\ startFrom' = [e \in Exs |-> 0]
    /\ folded' = [e \in Exs |-> <<>>]
    /\ closed' = [e \in Exs |-> <<>>]

\* KeyboardInterrupt ends asyncio.run: `except KeyboardInterrupt: pass`
Shutdown ==
    /\ LoopFree
    /\ Exit("signal", df_dict, gcs, <<>>, {})
    /\ UNCHANGED << clock, EXCHANGES, timestamp, today, counterVars >>

\* ------------------------------------------------------- clock and feeds
\* The feeds become ready within the second the program starts in.  The
\* event loop is never a whole second behind: a wait loop sees every second,
\* a task that can run runs within the second, and a timer fires at most
\* MaxLate seconds after it is due.
Urgent ==
    \/ pc = "AwaitingReady"
    \/ pc \in {"Aligning", "Realigning"} /\ Aligned
    \/ pc \in {"Warming", "Sleeping"} /\ clock >= wakeAt + MaxLate
    \/ \E e \in Exs : task[e] = "runnable"

Tick ==
    /\ LoopFree
    /\ ~Urgent
    /\ clock < MaxClock
    /\ clock' = clock + 1
    /\ UNCHANGED << EXCHANGES, store_dict, extra, pc, wakeAt, timestamp, localVars,
                    today, df_dict, cursorVars, trading_history_storage, task,
                    proc, cause, sinkVars, counterVars, taskHistory, closed >>

\* store.wait() returns on the next message of the exchange
Woken(e) == [task EXCEPT ![e] = IF @ = "waiting" THEN "runnable" ELSE @]

\* a message beyond the first of its store uses up one of `extra`
Counted(first) ==
    IF first THEN extra' = extra
    ELSE extra > 0 /\ extra' = extra - 1

FeedFrame ==
    UNCHANGED << clock, EXCHANGES, pc, wakeAt, timestamp, localVars, today,
                 df_dict, cursorVars, trading_history_storage, proc, cause,
                 sinkVars, counterVars, taskHistory, closed >>

\* onmessage: an order-book message replaces the book
DeliverOrderbook(e) ==
    /\ LoopFree
    /\ store_dict[e].books < MaxBookMsgs
    /\ Counted(store_dict[e].orderbook = <<>>)
    /\ \E b \in 1..Len(Books) :
          /\ Books[b] # store_dict[e].orderbook
          /\ store_dict' = [store_dict EXCEPT ![e].orderbook = Books[b],
                                              ![e].books = @ + 1]
    /\ task' = Woken(e)
    /\ FeedFrame

\* onmessage: a trade message carries one or more trades
DeliverTrades(e) ==
    /\ LoopFree
    /\ \E n \in 1..MaxBatch :
          /\ store_dict[e].trade + n <= MaxTrades
          /\ store_dict' = [store_dict EXCEPT ![e].trade = @ + n]
    /\ Counted(store_dict[e].trade = 0)
    /\ task' = Woken(e)
    /\ FeedFrame

DeliverLiquidation(e) ==
    /\ LoopFree
    /\ "liquidation" \in Subscribed(e)
    /\ store_dict[e].liquidation < MaxLiqs
    /\ Counted(FALSE)
    /\ store_dict' = [store_dict EXCEPT ![e].liquidation = @ + 1]
    /\ task' = Woken(e)
    /\ FeedFrame

DeliverInstrument(e) ==
    /\ LoopFree
    /\ "instrument" \in Subscribed(e)
    /\ store_dict[e].instrument < MaxOIs
    /\ Counted(FALSE)
    /\ store_dict' = [store_dict EXCEPT ![e].instrument = @ + 1]
    /\ task' = Woken(e)
    /\ FeedFrame

\* ------------------------------------------------------------ the scheduler
\* variant: the order book alone is looked at
HasOrderbook(e) == store_dict[e].orderbook # <<>>

\* inner_check_element(orderbook, trade) of one exchange; the trade store is
\* `.trade`, or `.trades` where `.trade` raises AttributeError
HasElements(e) ==
    /\ store_dict[e].orderbook # <<>>
    /\ store_dict[e].trade # 0

\* ApiClient._has_update
_has_update == \A e \in Exs : HasElements(e)

\* `while not self._has_update(): await asyncio.sleep(0)`
AwaitReady ==
    /\ proc = "running"
    /\ pc = "AwaitingReady"
    /\ _has_update
    /\ pc' = "Aligning"
    /\ UNCHANGED << clock, EXCHANGES, store_dict, extra, wakeAt, timestamp, localVars,
                    today, df_dict, cursorVars, trading_history_storage, task,
                    proc, cause, sinkVars, counterVars, taskHistory, closed >>

\* `while datetime.now().second % 5 != 0: await asyncio.sleep(0)`, then one
\* create_task per exchange and `await asyncio.sleep(5)`
Align ==
    /\ proc = "running"
    /\ pc = "Aligning"
    /\ Aligned
    /\ task' = [e \in Exs |-> "runnable"]
    /\ wakeAt' = clock + Interval
    /\ pc' = "Warming"
    /\ UNCHANGED << clock, EXCHANGES, store_dict, extra, timestamp, localVars, today,
                    df_dict, cursorVars, trading_history_storage, proc, cause,
                    sinkVars, counterVars, taskHistory, closed >>

\* asyncio.sleep(5) returns
WarmDone ==
    /\ proc = "running"
    /\ pc = "Warming"
    /\ clock >= wakeAt
    /\ pc' = "cycle"
    /\ UNCHANGED << clock, EXCHANGES, store_dict, extra, wakeAt, timestamp, localVars,
                    today, df_dict, cursorVars, trading_history_storage, task,
                    proc, cause, sinkVars, counterVars, taskHistory, closed >>

\* timestamp = datetime.now(); _create_ohlcvs(); _create_liquidation_qty();
\* _create_oi_ohlc()
CycleRead ==
    /\ proc = "running"
    /\ pc = "cycle"
    /\ timestamp' = clock
    /\ ohlcv_dict' = [e \in Exs |-> CreateOhlcv(trading_history_storage[e])]
    /\ liquidation_qty_dict' =
           [e \in Exs |-> CreateLiquidationQty(trading_history_storage[e])]
    /\ oi_ohlc_dict' = [e \in Exs |-> CreateOiOhlc(trading_history_storage[e])]
    /\ pc' = "reset"
    /\ retried' = (failRun > 0 /\ timestamp = clock)
    /\ closed' = [e \in Exs |->
           closed[e] \o Prices(trading_history_storage[e].contract_prices)]
    /\ UNCHANGED << clock, EXCHANGES, store_dict, extra, wakeAt, warning_count,
                    failRun, today, df_dict, cursorVars,
                    trading_history_storage, task, proc, cause, sinkVars,
                    taskHistory >>

\* self.trading_history_storage = TradingHistoryStorage()
Reset ==
    /\ trading_history_storage' = TradingHistoryStorage
    /\ trade_ids_dict' = ClassAttribute(trade_ids_dict)
    /\ liquidation_ids_dict' = ClassAttribute(liquidation_ids_dict)

\* the loop that builds ticker_dict: orderbook.find() and Ticker(...)
Tickers ==
    [e \in Exs |->
        Ticker(timestamp, ohlcv_dict[e], liquidation_qty_dict[e],
               oi_ohlc_dict[e],
               _parse_orderbook(store_dict[e].orderbook))]

\* the stores' order books after the loop that builds ticker_dict passed
\* them to _parse_orderbook
StoresAfterTickers ==
    [e \in Exs |->
        [store_dict[e] EXCEPT !.orderbook = AfterParse(@)]]

\* the rest of a cycle that raises nothing: the reset of the storage, the
\* tickers, self._update_df(...), self.warning_count = 0 and
\* `await asyncio.sleep(1)`
CycleEmit ==
    /\ proc = "running"
    /\ pc = "reset"
    /\ Reset
    /\ LET u == _update_df(DateOf(timestamp), Tickers, 0) IN
          /\ df_dict' = u.df_dict
          /\ today' = u.today
          /\ gcs' = u.gcs
          /\ calls' = u.calls
    /\ warning_count' = 0
    /\ failRun' = 0
    /\ retried' = FALSE
    /\ wakeAt' = clock + SleepAfterCycle
    /\ pc' = "Sleeping"
    /\ ohlcv_dict' = NoLocal
    /\ liquidation_qty_dict' = NoLocal
    /\ oi_ohlc_dict' = NoLocal
    /\ store_dict' = StoresAfterTickers
    /\ UNCHANGED << clock, EXCHANGES, extra, timestamp, task, proc, cause,
                    taskHistory, closed >>

\* variant: `if self.warning_count >= 5`
EscalatesAtLimit(count) == count >= WarningLimit

\* `if self.warning_count > 5`
Escalates(count) == count > WarningLimit

\* variant: a handled failure starts the scheduler over at the alignment
\* that launches the tasks
RecoverFromStart == "Aligning"

\* where a handled failure leaves the scheduler: the re-align loop of the
\* except clause, then `while True` again
Recover == IF Aligned THEN "cycle" ELSE "Realigning"

\* The `except Exception` clause of the steady-state loop, entered after the
\* storage was reset, with the buffers, the bucket and the uploads the cycle
\* left: `raise Exception(e)` ends asyncio.run, otherwise the re-align loop
\* is entered.
HandleError(df, bucket, cs) ==
    /\ warning_count' = warning_count + 1
    /\ failRun' = failRun + 1
    /\ IF Escalates(warning_count + 1)
       THEN Exit("fatal", df, bucket, cs, {})
       ELSE /\ pc' = Recover
            /\ Reset
            /\ df_dict' = df
            /\ gcs' = bucket
            /\ calls' = cs
            /\ ohlcv_dict' = NoLocal
            /\ liquidation_qty_dict' = NoLocal
            /\ oi_ohlc_dict' = NoLocal
            /\ UNCHANGED << store_dict, extra, wakeAt, task, proc, cause,
                            taskHistory, closed >>

\* the rest of a cycle in which save_ticker raises inside _update_df
CycleUpdateFail ==
    /\ proc = "running"
    /\ pc = "reset"
    /\ \E f \in SinkOutcomes :
          LET u == _update_df(DateOf(timestamp), Tickers, f) IN
          /\ u.raised
          /\ today' = u.today
          /\ HandleError(u.df_dict, u.gcs, u.calls)
    /\ UNCHANGED << clock, EXCHANGES, timestamp, retried >>

\* asyncio.sleep(1) returns, then the first test of the re-align loop
SleepDone ==
    /\ proc = "running"
    /\ pc = "Sleeping"
    /\ clock >= wakeAt
    /\ pc' = IF Aligned THEN "cycle" ELSE "Realigning"
    /\ UNCHANGED << clock, EXCHANGES, store_dict, extra, wakeAt, timestamp, localVars,
                    today, df_dict, cursorVars, trading_history_storage, task,
                    proc, cause, sinkVars, counterVars, taskHistory, closed >>

\* `while datetime.now().second % 5 != 0: await asyncio.sleep(0)` ends
Realign ==
    /\ proc = "running"
    /\ pc = "Realigning"
    /\ Aligned
    /\ pc' = "cycle"
    /\ UNCHANGED << clock, EXCHANGES, store_dict, extra, wakeAt, timestamp, localVars,
                    today, df_dict, cursorVars, trading_history_storage, task,
                    proc, cause, sinkVars, counterVars, taskHistory, closed >>

\* ------------------------------------------------- the accumulation tasks
\* variant: every snapshot is taken for a new one
AlwaysUpdated(id, cursor) == TRUE

\* `latest[<id key>] != <cursor>`: the cursor starts as None
IdUpdated(id, cursor) == Some(id) # cursor

\* inner_store_trade: the accumulator and the cursor after the call
inner_store_trade(e, acc, cursor, trades) ==
    IF trades = <<>> THEN [acc |-> acc, cursor |-> cursor, raised |-> FALSE]
    ELSE IF e \notin TRADE_IDS
    THEN [acc |-> acc, cursor |-> cursor, raised |-> TRUE]
    ELSE LET latest_trade == trades[Len(trades)]
             cp == [side |-> Lower(latest_trade.side),
                    price |-> latest_trade.price]
         IN  IF IdUpdated(latest_trade.id, cursor)
             THEN [acc |->
                     IF Lower(latest_trade.side) = "buy"
                     THEN [acc EXCEPT
                             !.contract_prices = Append(@, cp),
                             !.buy_volume = @ + latest_trade.size]
                     ELSE IF Lower(latest_trade.side) = "sell"
                     THEN [acc EXCEPT
                             !.contract_prices = Append(@, cp),
                             !.sell_volume = @ + latest_trade.size]
                     ELSE acc,
                   cursor |-> Some(latest_trade.id),
                   raised |-> FALSE]
             ELSE [acc |-> acc, cursor |-> cursor, raised |-> FALSE]

\* inner_store_liquidation
inner_store_liquidation(e, acc, cursor, liquidations) ==
    IF liquidations = <<>>
    THEN [acc |-> acc, cursor |-> cursor, raised |-> FALSE]
    ELSE IF e \notin LIQUIDATION_IDS
    THEN [acc |-> acc, cursor |-> cursor, raised |-> TRUE]
    ELSE LET latest == liquidations[Len(liquidations)]
             a1 == IF Lower(latest.side) = "buy"
                   THEN [acc EXCEPT !.buy_liquidation_qty = @ + latest.qty]
                   ELSE acc
             a2 == IF Lower(latest.side) = "sell"
                   THEN [a1 EXCEPT !.sell_liquidation_qty = @ + latest.qty]
                   ELSE a1
         IN  IF IdUpdated(latest.id, cursor)
             THEN [acc |-> a2, cursor |-> Some(latest.id), raised |-> FALSE]
             ELSE [acc |-> acc, cursor |-> cursor, raised |-> FALSE]

\* inner_store_OI: its cursor is the OIids entry of the accumulator
inner_store_OI(e, acc, OIs) ==
    IF OIs = <<>> THEN [acc |-> acc, raised |-> FALSE]
    ELSE IF e \notin OI_IDS THEN [acc |-> acc, raised |-> TRUE]
    ELSE LET latest_OI == OIs[Len(OIs)] IN
         IF IdUpdated(latest_OI.open_interest, acc.OIids)
         THEN [acc |-> [acc EXCEPT
                          !.OIids = Some(latest_OI.open_interest),
                          !.OIs = Append(@, latest_OI.open_interest)],
               raised |-> FALSE]
         ELSE [acc |-> acc, raised |-> FALSE]

\* the three lookups `.trade`, `.liquidation`, `.instrument` all succeed
LookupOk(e) == {"trade", "liquidation", "instrument"} \subseteq StoreAttrs(e)

\* One pass of the `while True` body of _store_trading_history up to its
\* await: the accumulator and cursors it leaves, and whether it raised.
\* Where a lookup raises AttributeError only `trades` is bound (from
\* `.trades`), so the call of inner_store_liquidation raises
\* UnboundLocalError after inner_store_trade has run.
Iteration(e) ==
    LET acc0 == trading_history_storage[e]
        t == inner_store_trade(e, acc0, trade_ids_dict[e],
                               TradeSnapshot(store_dict[e].trade))
        l == inner_store_liquidation(e, t.acc, liquidation_ids_dict[e],
                 LiquidationSnapshot(store_dict[e].liquidation))
        o == inner_store_OI(e, l.acc,
                 InstrumentSnapshot(store_dict[e].instrument))
    IN  IF t.raised
        THEN [acc |-> t.acc, trade_id |-> t.cursor,
              liquidation_id |-> liquidation_ids_dict[e], raised |-> TRUE]
        ELSE IF ~LookupOk(e) \/ l.raised
        THEN [acc |-> t.acc, trade_id |-> t.cursor,
              liquidation_id |-> liquidation_ids_dict[e], raised |-> TRUE]
        ELSE [acc |-> o.acc, trade_id |-> t.cursor,
              liquidation_id |-> l.cursor, raised |-> o.raised]

\* the accumulator, cursors and history of exchange e after one pass
Pass(e) ==
    LET it == Iteration(e)
        before == Len(trading_history_storage[e].contract_prices)
        after == it.acc.contract_prices
    IN  [trading_history_storage |->
             [trading_history_storage EXCEPT ![e] = it.acc],
         trade_ids_dict |-> [trade_ids_dict EXCEPT ![e] = it.trade_id],
         liquidation_ids_dict |->
             [liquidation_ids_dict EXCEPT ![e] = it.liquidation_id],
         seen |-> [seen EXCEPT ![e] = store_dict[e].trade],
         startFrom |-> [startFrom EXCEPT ![e] =
             IF seen[e] = 0 THEN store_dict[e].trade ELSE @],
         folded |-> [folded EXCEPT ![e] =
             @ \o Prices(SubSeq(after, before + 1, Len(after)))]]

\* a pass that reaches `await self.store_dict[exchange].wait()`
TaskFold(e) ==
    /\ LoopFree
    /\ task[e] = "runnable"
    /\ ~Iteration(e).raised
    /\ LET p == Pass(e) IN
          /\ trading_history_storage' = p.trading_history_storage
          /\ trade_ids_dict' = p.trade_ids_dict
          /\ liquidation_ids_dict' = p.liquidation_ids_dict
          /\ seen' = p.seen
          /\ startFrom' = p.startFrom
          /\ folded' = p.folded
    /\ task' = [task EXCEPT ![e] = "waiting"]
    /\ UNCHANGED << clock, EXCHANGES, store_dict, extra, pc, wakeAt, timestamp,
                    localVars, today, df_dict, proc, cause, sinkVars,
                    counterVars, closed >>

\* `logger.error(e); self.save_ticker(); sys.exit(1)` after a pass left the
\* accumulator p: SystemExit ends asyncio.run; an exception of save_ticker
\* escapes the handler and ends only the task
Fatal(e, p) ==
    \E f \in SinkOutcomes :
        LET s == save_ticker(df_dict, gcs, f) IN
        IF s.raised
        THEN /\ task' = [task EXCEPT ![e] = "dead"]
             /\ gcs' = s.gcs
             /\ calls' = s.calls
             /\ df_dict' = s.df_dict
             /\ trading_history_storage' = p.trading_history_storage
             /\ trade_ids_dict' = p.trade_ids_dict
             /\ liquidation_ids_dict' = p.liquidation_ids_dict
             /\ seen' = p.seen
             /\ startFrom' = p.startFrom
             /\ folded' = p.folded
             /\ UNCHANGED << store_dict, extra, pc, wakeAt, localVars, proc,
                             cause, closed >>
        ELSE Exit("task", s.df_dict, s.gcs, s.calls, {e})

\* a pass in which a fold raises
TaskFoldRaise(e) ==
    /\ LoopFree
    /\ task[e] = "runnable"
    /\ Iteration(e).raised
    /\ Fatal(e, Pass(e))
    /\ UNCHANGED << clock, EXCHANGES, timestamp, today, counterVars >>

\* a pass in which a snapshot read raises something other than AttributeError
TaskReadRaise(e) ==
    /\ LoopFree
    /\ task[e] = "runnable"
    /\ LookupOk(e)
    /\ Fatal(e, [trading_history_storage |-> trading_history_storage,
                 trade_ids_dict |-> trade_ids_dict,
                 liquidation_ids_dict |-> liquidation_ids_dict,
                 seen |-> seen, startFrom |-> startFrom,
                 folded |-> folded])
    /\ UNCHANGED << clock, EXCHANGES, timestamp, today, counterVars >>

Next ==
    \/ Tick
    \/ \E e \in Exs : DeliverOrderbook(e)
    \/ \E e \in Exs : DeliverTrades(e)
    \/ \E e \in Exs : DeliverLiquidation(e)
    \/ \E e \in Exs : DeliverInstrument(e)
    \/ AwaitReady
    \/ Align
    \/ WarmDone
    \/ CycleRead
    \/ CycleEmit
    \/ CycleUpdateFail
    \/ SleepDone
    \/ Realign
    \/ \E e \in Exs : TaskFold(e)
    \/ \E e \in Exs : TaskFoldRaise(e)
    \/ \E e \in Exs : TaskReadRaise(e)
    \/ Shutdown

Spec == Init /\ [][Next]_vars

\* the rest of a cycle, whatever its outcome (CycleEmit, CycleUpdateFail):
\* the scheduler leaves the position between the read and the reset
CycleRest ==
    /\ proc = "running"
    /\ pc = "reset"
    /\ pc' \in {"Sleeping", "cycle", "Realigning", "Terminal"}

\* one pass of the task of a configured exchange, however it ends
\* (TaskFold, TaskFoldRaise, TaskReadRaise): the task is runnable no more
TaskRuns(e) ==
    /\ e \in Exs
    /\ LoopFree
    /\ task[e] = "runnable"
    /\ \E t \in [Exs -> {"waiting", "dead", "exited", "cancelled"}] : task' = t

\* The program under the scheduling of the asyncio event loop: time passes,
\* a coroutine whose await can return is resumed (the ready queue is
\* first-in first-out, and every wait loop yields with sleep(0)), a cycle
\* that was begun runs to its end, and a task that store.wait() released
\* makes its pass.  Nothing is assumed of the feeds, the sink or the
\* signals.
FairSpec ==
    /\ Spec
    /\ WF_vars(Tick)
    /\ WF_vars(AwaitReady)
    /\ WF_vars(Align)
    /\ WF_vars(WarmDone)
    /\ WF_vars(CycleRead)
    /\ WF_pc(CycleRest)
    /\ WF_vars(SleepDone)
    /\ WF_vars(Realign)
    /\ \A e \in {BYBIT, BITMEX, FTX} : WF_task(TaskRuns(e))

\* The state in which the wait for the snapshots begins when the one
\* exchange's order-book and trade stores already hold their first message:
\* `book` is the order book held, `budget` the feed messages still to come.
InitWith(book, budget) ==
    /\ clock = 0
    /\ EXCHANGES = <<BYBIT>>
    /\ extra = budget
    /\ store_dict = [e \in Exs |->
                        [EmptyStores[e] EXCEPT !.orderbook = book,
                                               !.books = 1,
                                               !.trade = 1]]
    /\ pc = "AwaitingReady"
    /\ wakeAt = 0
    /\ timestamp = -1
    /\ ohlcv_dict = NoLocal
    /\ liquidation_qty_dict = NoLocal
    /\ oi_ohlc_dict = NoLocal
    /\ warning_count = 0
    /\ today = DateOf(clock)
    /\ df_dict = EmptyBuffers
    /\ trade_ids_dict = [e \in Exs |-> None]
    /\ liquidation_ids_dict = [e \in Exs |-> None]
    /\ trading_history_storage = TradingHistoryStorage
    /\ task = [e \in Exs |-> "unborn"]
    /\ proc = "running"
    /\ cause = "none"
    /\ gcs = {}
    /\ calls = <<>>
    /\ failRun = 0
    /\ retried = FALSE
    /\ seen = [e \in Exs |-> 0]
    /\ startFrom = [e \in Exs |-> 0]
    /\ folded = [e \in Exs |-> <<>>]
    /\ closed = [e \in Exs |-> <<>>]

\* The program over arbitrary order books, with no message after the first
InitParse == \E book \in Snapshots : InitWith(book, 0)

NextParse ==
    \/ Tick
    \/ AwaitReady
    \/ Align
    \/ WarmDone
    \/ CycleRead
    \/ CycleEmit
    \/ SleepDone
    \/ Realign
    \/ \E e \in Exs : TaskFold(e)

SpecParse == InitParse /\ [][NextParse]_vars

\* The program under a feed that, after the first order book and trade,
\* delivers open-interest updates only
InitOI == InitWith(Books[1], MaxOIs)

NextOI ==
    \/ Tick
    \/ \E e \in Exs : DeliverInstrument(e)
    \/ AwaitReady
    \/ Align
    \/ WarmDone
    \/ CycleRead
    \/ CycleEmit
    \/ SleepDone
    \/ Realign
    \/ \E e \in Exs : TaskFold(e)

SpecOI == InitOI /\ [][NextOI]_vars

\* ================================================================= properties

\* ---------------------------------------------------------------------- C1
\* C1: the counter equals the number of cycles that failed since the last
\* successful cycle; a cycle that fails adds exactly one to it and a cycle
\* that succeeds sets it to 0; the scheduler has escalated to fatal exactly
\* when that number is six (the counter exceeds 5), so five or fewer
\* consecutive failures never escalate and the sixth always does.
C1_ErrorThreshold ==
    /\ [](/\ warning_count = failRun
          /\ failRun <= WarningLimit + 1
          /\ (cause = "fatal") <=> (failRun = WarningLimit + 1))
    /\ [][pc = "reset" =>
            IF pc' = "Sleeping"
            THEN warning_count' = 0
            ELSE /\ warning_count' = warning_count + 1
                 /\ (pc' = "Terminal") <=> (warning_count' = WarningLimit + 1)
                 /\ (pc' # "Terminal") => (proc' = "running")]_vars

\* the sixth consecutive failure has escalated
C1_Witness ==
    /\ cause = "fatal"
    /\ proc = "exited"
    /\ failRun = WarningLimit + 1
    /\ warning_count = WarningLimit + 1

\* ---------------------------------------------------------------------- C2
\* C2: no cycle attempt starts in the second in which the attempt before it
\* failed (two attempts never start within the same boundary second).
C2_NoRetryWithinSecond == ~retried

\* ---------------------------------------------------------------------- C3
\* C3 as stated: a window close leaves every accumulator cleared and keeps
\* all three cursors (trade id, liquidation id, open-interest id) of every
\* exchange at the value they had before the reset.
C3_AllCursorsKept ==
    [][(pc = "reset" /\ pc' # "Terminal") =>
          \A e \in Exs :
             /\ trading_history_storage'[e].contract_prices = <<>>
             /\ trading_history_storage'[e].buy_volume = 0
             /\ trading_history_storage'[e].sell_volume = 0
             /\ trading_history_storage'[e].buy_liquidation_qty = 0
             /\ trading_history_storage'[e].sell_liquidation_qty = 0
             /\ trading_history_storage'[e].OIs = <<>>
             /\ trade_ids_dict'[e] = trade_ids_dict[e]
             /\ liquidation_ids_dict'[e] = liquidation_ids_dict[e]
             /\ trading_history_storage'[e].OIids =
                    trading_history_storage[e].OIids]_vars

\* C3 amended: a window close leaves every accumulator cleared, keeps the
\* trade and the liquidation cursor of every exchange at the value they had
\* before the reset, and clears the open-interest cursor together with the
\* accumulator it is part of.
C3_ResetKeepsClassCursors ==
    [][(pc = "reset" /\ pc' # "Terminal") =>
          \A e \in Exs :
             /\ trading_history_storage'[e].contract_prices = <<>>
             /\ trading_history_storage'[e].buy_volume = 0
             /\ trading_history_storage'[e].sell_volume = 0
             /\ trading_history_storage'[e].buy_liquidation_qty = 0
             /\ trading_history_storage'[e].sell_liquidation_qty = 0
             /\ trading_history_storage'[e].OIs = <<>>
             /\ trade_ids_dict'[e] = trade_ids_dict[e]
             /\ liquidation_ids_dict'[e] = liquidation_ids_dict[e]
             /\ trading_history_storage'[e].OIids = None]_vars

\* a window in which a trade and an open-interest sample were folded has
\* just been closed and reset: the trade cursor is kept, the open-interest
\* cursor is not
C3_Witness ==
    /\ pc = "Sleeping"
    /\ df_dict[BYBIT] # <<>>
    /\ LET t == df_dict[BYBIT][Len(df_dict[BYBIT])] IN
          /\ t.timestamp = timestamp
          /\ t.close # None
          /\ t.oi_close # None
    /\ trading_history_storage[BYBIT] = FreshAccumulator
    /\ trade_ids_dict[BYBIT] # None

\* ---------------------------------------------------------------------- C4
\* C4: a pass of an accumulation task that reaches its await changes the
\* trade part (the liquidation part, the open-interest part) of the
\* accumulator if and only if the snapshot is non-empty and the id of its
\* latest item differs from the stored cursor of that stream; a pass that
\* sees the trade snapshot the pass before it saw leaves contract_prices,
\* buy_volume and sell_volume as they are, also after a window close.
C4_FoldIffIdDiffers ==
    [][\A e \in Exs :
          (task[e] = "runnable" /\ task'[e] = "waiting") =>
             LET acc  == trading_history_storage[e]
                 acc2 == trading_history_storage'[e]
                 trades == TradeSnapshot(store_dict[e].trade)
                 liquidations == LiquidationSnapshot(store_dict[e].liquidation)
                 OIs == InstrumentSnapshot(store_dict[e].instrument)
             IN  /\ (<<acc2.contract_prices, acc2.buy_volume, acc2.sell_volume>>
                        # <<acc.contract_prices, acc.buy_volume, acc.sell_volume>>)
                    <=> (/\ trades # <<>>
                         /\ Some(trades[Len(trades)].id) # trade_ids_dict[e])
                 /\ (<<acc2.buy_liquidation_qty, acc2.sell_liquidation_qty>>
                        # <<acc.buy_liquidation_qty, acc.sell_liquidation_qty>>)
                    <=> (/\ liquidations # <<>>
                         /\ Some(liquidations[Len(liquidations)].id)
                                # liquidation_ids_dict[e])
                 /\ (acc2.OIs # acc.OIs)
                    <=> (/\ OIs # <<>>
                         /\ Some(OIs[Len(OIs)].open_interest) # acc.OIids)
                 /\ (store_dict[e].trade = seen[e]) =>
                       /\ acc2.contract_prices = acc.contract_prices
                       /\ acc2.buy_volume = acc.buy_volume
                       /\ acc2.sell_volume = acc.sell_volume]_vars

\* after a window close the task has made a pass (it folded an open-interest
\* sample) over the trade snapshot it had folded before the close, and left
\* the trade part of the fresh accumulator empty
C4_Witness ==
    /\ task[BYBIT] = "waiting"
    /\ closed[BYBIT] # <<>>
    /\ seen[BYBIT] = store_dict[BYBIT].trade
    /\ trade_ids_dict[BYBIT] = Some(TradeAt(seen[BYBIT]).id)
    /\ trading_history_storage[BYBIT].OIs # <<>>
    /\ trading_history_storage[BYBIT].contract_prices = <<>>
    /\ trading_history_storage[BYBIT].buy_volume = 0
    /\ trading_history_storage[BYBIT].sell_volume = 0

\* ---------------------------------------------------------------------- C5
\* C5: the prices an accumulation task folded so far are exactly the prices
\* of the windows closed so far followed by the prices the open accumulator
\* holds; between the read and the reset of a window close the accumulator
\* holds nothing that is not in the closed windows.  So no fold falls
\* between the read and the reset, and every folded event is in exactly one
\* closed window.
C5_CloseAtomic ==
    proc = "running" =>
        \A e \in Exs :
            folded[e] = closed[e] \o
                (IF pc = "reset" THEN <<>>
                 ELSE Prices(trading_history_storage[e].contract_prices))

\* the scheduler stands between the read and the reset of a window that
\* holds a folded trade, while a task has a new trade to fold
C5_Witness ==
    /\ pc = "reset"
    /\ trading_history_storage[BYBIT].contract_prices # <<>>
    /\ task[BYBIT] = "runnable"
    /\ store_dict[BYBIT].trade > seen[BYBIT]

\* ---------------------------------------------------------------------- C6
\* C6: whenever an accumulation task is suspended at its await, the trades
\* the feed delivered since the task's first pass have all been folded, in
\* the order of delivery: their prices are the last prices the task folded.
\* (The trades after the first are (buy,100,1), (sell,101,2), (buy,102,3).)
C6_AllTradesFolded ==
    \A e \in Exs :
        task[e] = "waiting" =>
            LET n == store_dict[e].trade - startFrom[e]
                delivered == [k \in 1..n |-> TradeAt(startFrom[e] + k).price]
            IN  /\ Len(folded[e]) >= n
                /\ SubSeq(folded[e], Len(folded[e]) - n + 1, Len(folded[e]))
                       = delivered

\* ---------------------------------------------------------------------- C7
\* C7: a cycle that completes, whose timestamp date is later than the stored
\* day D while every buffer holds only tickers of day D, makes exactly one
\* upload per exchange, in order, each carrying that exchange's whole buffer
\* under day D; the stored day becomes the timestamp's date and every buffer
\* ends holding exactly the ticker of this cycle.
C7_DayRollover ==
    [][(/\ pc = "reset"
        /\ pc' = "Sleeping"
        /\ DateOf(timestamp) > today
        /\ \A e \in Exs : \A i \in 1..Len(df_dict[e]) :
              DateOf(df_dict[e][i].timestamp) = today)
       => /\ calls' = [i \in 1..Len(EXCHANGES) |->
                         [exchange |-> EXCHANGES[i], day |-> today,
                          tickers |-> df_dict[EXCHANGES[i]], ok |-> TRUE]]
          /\ \A e \in Exs :
                [day |-> today, exchange |-> e, tickers |-> df_dict[e]]
                    \in gcs'
          /\ today' = DateOf(timestamp)
          /\ \A e \in Exs : df_dict'[e] = <<Tickers[e]>>]_vars

\* a rollover of two exchanges whose buffers held tickers has completed
C7_Witness ==
    /\ pc = "Sleeping"
    /\ Len(EXCHANGES) = 2
    /\ today = DateOf(timestamp)
    /\ Len(calls) = 2
    /\ \A i \in 1..Len(calls) :
          calls[i].ok /\ calls[i].tickers # <<>> /\ calls[i].day < today
    /\ \A e \in Exs : Len(df_dict[e]) = 1 /\ df_dict[e][1].timestamp = timestamp

\* ---------------------------------------------------------------------- C8
\* C8: in the step in which the process exits, whatever the cause (fatal
\* escalation, shutdown signal, failure of an accumulation task), every
\* non-empty buffer is passed as a whole to an upload of its exchange, and
\* nothing but the buffers (never the content of an open accumulator) is
\* passed to any upload.
C8_FlushOnEveryExit ==
    [][(proc = "running" /\ proc' = "exited") =>
          /\ \A e \in Exs :
                df_dict[e] # <<>> =>
                   \E i \in 1..Len(calls') :
                      calls'[i].exchange = e /\ calls'[i].tickers = df_dict[e]
          /\ \A i \in 1..Len(calls') :
                calls'[i].tickers \in {<<>>, df_dict[calls'[i].exchange]}]_vars

\* ---------------------------------------------------------------------- C9
\* C9 as stated: once a cycle has failed (in the model a cycle fails only
\* because an upload of its day rollover raised) the scheduler is in
\* Terminal by fatal escalation: the failure is not counted as a cycle error
\* and no later cycle attempt follows it.
C9_SinkFailureFatal ==
    failRun > 0 => (pc = "Terminal" /\ cause = "fatal")

\* C9 amended: a cycle in which an upload of the day rollover (of a buffer
\* or of the log file that follows the buffers) raises is counted as a
\* failed cycle: the counter goes up by one, the scheduler goes
\* to Terminal only if the counter then exceeds 5, and otherwise no buffer
\* is cleared, the stored day is not advanced, no ticker is appended and the
\* scheduler goes on to its next cycle attempt, whose rollover uploads the
\* buffers again.
C9_FlushFailureCounted ==
    [][(pc = "reset" /\ DateOf(timestamp) > today /\ pc' # "Sleeping") =>
          /\ warning_count' = warning_count + 1
          /\ (pc' = "Terminal") <=> (warning_count' > WarningLimit)
          /\ (pc' # "Terminal") =>
                /\ pc' \in {"cycle", "Realigning"}
                /\ proc' = "running"
                /\ df_dict' = df_dict
                /\ today' = today
                /\ DateOf(clock') > today']_vars

\* an upload of a rollover raised, the cycle was counted and the scheduler
\* goes on with its buffers and its day as they were
C9_Witness ==
    /\ proc = "running"
    /\ pc \in {"cycle", "Realigning"}
    /\ warning_count > 0
    /\ \E i \in 1..Len(calls) : ~calls[i].ok
    /\ df_dict[BYBIT] # <<>>
    /\ DateOf(timestamp) > today

\* --------------------------------------------------------------------- C10
\* C10: the accumulation task of an exchange whose store lacks one of the
\* streams never ends, neither by an exception nor by ending the process.
C10_UnsupportedStreamSkipped ==
    \A e \in Exs : ~LookupOk(e) => task[e] \notin {"dead", "exited"}

\* --------------------------------------------------------------------- C11
\* C11: once the accumulation task of an exchange with all its streams has
\* failed in a read or a fold, the process has exited: no state exists in
\* which such a task has ended and the scheduler is still running (and so
\* still appending tickers).
C11_TaskFailureFatal ==
    \A e \in Exs :
        (LookupOk(e) /\ task[e] \in {"dead", "exited"}) => proc = "exited"

\* --------------------------------------------------------------------- C12
\* C12 as stated: while the process runs, once an accumulation task has been
\* created or a window has been closed, the order-book, trade, liquidation
\* and open-interest snapshots of every configured exchange are non-empty.
C12_AllStreamsReady ==
    (proc = "running" /\ ((\E e \in Exs : task[e] # "unborn") \/ timestamp # -1))
        => \A e \in Exs :
              /\ store_dict[e].orderbook # <<>>
              /\ store_dict[e].trade # 0
              /\ store_dict[e].liquidation # 0
              /\ store_dict[e].instrument # 0

\* C12 amended: while the process runs, once the scheduler has left
\* AwaitingReady, an accumulation task has been created or a window has been
\* closed, the order-book and the trade snapshot of every configured
\* exchange are non-empty (liquidation and open interest are not waited for).
C12_BookAndTradeReady ==
    (proc = "running" /\ (\/ pc # "AwaitingReady"
                          \/ \E e \in Exs : task[e] # "unborn"
                          \/ timestamp # -1))
        => \A e \in Exs :
              /\ store_dict[e].orderbook # <<>>
              /\ store_dict[e].trade # 0

\* the tasks of two exchanges have been created, a window has been closed,
\* and no liquidation or open-interest snapshot has ever arrived
C12_Witness ==
    /\ proc = "running"
    /\ Len(EXCHANGES) = 2
    /\ \A e \in Exs : task[e] = "waiting"
    /\ timestamp # -1
    /\ \A e \in Exs :
          /\ store_dict[e].orderbook # <<>>
          /\ store_dict[e].trade # 0
          /\ store_dict[e].liquidation = 0
          /\ store_dict[e].instrument = 0

\* --------------------------------------------------------------------- C13
\* C13: the timestamp of every cycle (after the warm-up sleep, after a
\* successful cycle, after a failed cycle) is a second that is a multiple of
\* the interval, and the tickers one cycle appends to the buffers of the
\* exchanges all carry the same timestamp.
C13_TimestampAligned ==
    /\ timestamp # -1 => Second(timestamp) % Interval = 0
    /\ \A e1, e2 \in Exs :
          /\ Len(df_dict[e1]) = Len(df_dict[e2])
          /\ \A i \in 1..Len(df_dict[e1]) :
                df_dict[e1][i].timestamp = df_dict[e2][i].timestamp

\* --------------------------------------------------------------------- C14
\* C14: between the read and the reset of a window close, for every exchange
\* whose accumulator holds a non-empty sequence of folded prices, the Ohlcv
\* just built has open equal to the first and close equal to the last price
\* of the sequence, high equal to its greatest and low to its least price
\* whatever the sides, and high >= low.
C14_OhlcOfWindow ==
    pc = "reset" =>
        \A e \in Exs :
            LET w == Prices(trading_history_storage[e].contract_prices)
                o == ohlcv_dict[e]
            IN  w # <<>> =>
                   /\ o.open = Some(w[1])
                   /\ o.close = Some(w[Len(w)])
                   /\ \E i \in 1..Len(w) : o.high = Some(w[i])
                   /\ \E i \in 1..Len(w) : o.low = Some(w[i])
                   /\ \A i \in 1..Len(w) : w[i] <= o.high[1] /\ o.low[1] <= w[i]
                   /\ o.high[1] >= o.low[1]

\* a window of two trades of different sides whose first price is the
\* highest and whose last price is the lowest has been read
C14_Witness ==
    /\ pc = "reset"
    /\ LET cps == trading_history_storage[BYBIT].contract_prices IN
          /\ Len(cps) = 2
          /\ cps[1].side # cps[2].side
          /\ cps[1].price > cps[2].price
          /\ ohlcv_dict[BYBIT].high = Some(cps[1].price)
          /\ ohlcv_dict[BYBIT].low = Some(cps[2].price)

\* --------------------------------------------------------------------- C15
\* C15: when a window is read in which the task of an exchange folded no
\* trade (everything it ever folded is in the windows closed before), the
\* Ohlcv built for the exchange has open, high, low, close, buy_price_avg
\* and sell_price_avg absent and buy_volume and sell_volume 0, whatever the
\* earlier windows held.
C15_EmptyWindow ==
    [][(pc = "cycle" /\ pc' = "reset") =>
          \A e \in Exs :
             Len(folded[e]) = Len(closed[e]) =>
                /\ ohlcv_dict'[e].open = None
                /\ ohlcv_dict'[e].high = None
                /\ ohlcv_dict'[e].low = None
                /\ ohlcv_dict'[e].close = None
                /\ ohlcv_dict'[e].buy_price_avg = None
                /\ ohlcv_dict'[e].sell_price_avg = None
                /\ ohlcv_dict'[e].buy_volume = 0
                /\ ohlcv_dict'[e].sell_volume = 0]_vars

\* a window without a trade has been read after a window with volume was
\* closed and its ticker appended
C15_Witness ==
    /\ pc = "reset"
    /\ df_dict[BYBIT] # <<>>
    /\ df_dict[BYBIT][1].buy_volume + df_dict[BYBIT][1].sell_volume > 0
    /\ closed[BYBIT] = folded[BYBIT]
    /\ trading_history_storage[BYBIT].contract_prices = <<>>
    /\ ohlcv_dict[BYBIT].open = None
    /\ ohlcv_dict[BYBIT].buy_volume = 0
    /\ ohlcv_dict[BYBIT].sell_volume = 0

\* --------------------------------------------------------------------- C16
\* C16: between the read and the reset of a window close, for every exchange
\* whose window holds at least one trade, buy_price_avg is the sum of the
\* buy-side prices over buy_volume when buy_volume > 0 and absent when
\* buy_volume is 0, and the same for the sell side; open, high, low and
\* close are present in both cases.
C16_PriceAverages ==
    pc = "reset" =>
        \A e \in Exs :
            LET acc == trading_history_storage[e]
                cps == acc.contract_prices
                o   == ohlcv_dict[e]
                sum(side) == SumSeq([i \in 1..Len(Filter(cps, side)) |->
                                        Filter(cps, side)[i].price])
            IN  cps # <<>> =>
                   /\ acc.buy_volume > 0 =>
                         o.buy_price_avg =
                            Some([num |-> sum("buy"), den |-> acc.buy_volume])
                   /\ acc.buy_volume = 0 => o.buy_price_avg = None
                   /\ acc.sell_volume > 0 =>
                         o.sell_price_avg =
                            Some([num |-> sum("sell"), den |-> acc.sell_volume])
                   /\ acc.sell_volume = 0 => o.sell_price_avg = None
                   /\ o.open # None /\ o.high # None
                   /\ o.low # None /\ o.close # None

\* a cycle has completed whose window held trades of the sell side only: its
\* ticker has no buy average, a sell average and the four prices
C16_Witness ==
    /\ pc = "Sleeping"
    /\ df_dict[BYBIT] # <<>>
    /\ LET t == df_dict[BYBIT][Len(df_dict[BYBIT])] IN
          /\ t.timestamp = timestamp
          /\ t.buy_volume = 0
          /\ t.sell_volume > 0
          /\ t.buy_price_avg = None
          /\ t.sell_price_avg # None
          /\ t.open # None /\ t.close # None

\* --------------------------------------------------------------------- C17
\* the levels of one side of a raw snapshot, and a parsed side, as bags of
\* (price, size) pairs
RawSideBag(raw, side) ==
    [pq \in { <<raw[i].price, raw[i].size>> :
                 i \in { j \in 1..Len(raw) : Capitalize(raw[j].side) = side } } |->
        Cardinality({ i \in 1..Len(raw) :
                        /\ Capitalize(raw[i].side) = side
                        /\ <<raw[i].price, raw[i].size>> = pq })]

ParsedSideBag(levels) ==
    [pq \in { <<levels[i].price, levels[i].size>> : i \in 1..Len(levels) } |->
        Cardinality({ i \in 1..Len(levels) :
                        <<levels[i].price, levels[i].size>> = pq })]

\* C17: the order book of the ticker a cycle appends is, for the raw snapshot
\* the store held, a permutation of its levels split by side (Buy and Sell
\* together hold every level once), every level keeps price and size and
\* nothing else, Sell is in ascending and Buy in descending order of price,
\* and the store's snapshot is what it was before the cycle.
C17_ParsedOrderbook ==
    [][(pc = "reset" /\ pc' = "Sleeping") =>
          \A e \in Exs :
             LET raw == store_dict[e].orderbook
                 r   == df_dict'[e][Len(df_dict'[e])].orderbook
             IN  /\ store_dict'[e].orderbook = raw
                 /\ DOMAIN r = {"Buy", "Sell"}
                 /\ Len(r.Buy) + Len(r.Sell) = Len(raw)
                 /\ \A side \in {"Buy", "Sell"} :
                       /\ ParsedSideBag(r[side]) = RawSideBag(raw, side)
                       /\ \A i \in 1..Len(r[side]) :
                             DOMAIN r[side][i] = {"price", "size"}
                 /\ \A i \in 1..(Len(r.Sell) - 1) :
                       r.Sell[i].price <= r.Sell[i + 1].price
                 /\ \A i \in 1..(Len(r.Buy) - 1) :
                       r.Buy[i].price >= r.Buy[i + 1].price]_vars

\* a ticker was appended whose snapshot came with both sides out of order
\* and a price that repeats
C17_Witness ==
    /\ pc = "Sleeping"
    /\ \E e \in Exs :
          LET raw == store_dict[e].orderbook IN
          /\ df_dict[e] # <<>>
          /\ Len(raw) = 3
          /\ raw[1].side = "sell" /\ raw[2].side = "sell"
          /\ raw[1].price > raw[2].price
          /\ df_dict[e][Len(df_dict[e])].orderbook.Sell
                = << extract_dict(raw[2]), extract_dict(raw[1]) >>

\* --------------------------------------------------------------------- C18
\* C18: a cycle that appends a ticker had a snapshot with at least two
\* levels on each side, and the ticker's order book is exactly the best two
\* bids and the best two asks of that snapshot; a cycle whose snapshot has a
\* side with fewer than two levels appends nothing.
C18_BestTwoLevels ==
    [][(pc = "reset" /\ pc' = "Sleeping") =>
          \A e \in Exs :
             LET raw  == store_dict[e].orderbook
                 bids == SortDesc(SideLevels(raw, "Buy"))
                 asks == SortAsc(SideLevels(raw, "Sell"))
                 r    == df_dict'[e][Len(df_dict'[e])].orderbook
             IN  /\ Len(bids) >= 2
                 /\ Len(asks) >= 2
                 /\ r.Buy = SubSeq(bids, 1, 2)
                 /\ r.Sell = SubSeq(asks, 1, 2)]_vars

\* --------------------------------------------------------------------- C19
\* C19: between the read and the reset of a window close, for every
\* exchange, the OIohlc just built has oi_open, oi_high, oi_low, oi_close
\* equal to the first, the greatest, the least and the last of the
\* open-interest samples the accumulator holds when it holds any, and each
\* of the four is absent exactly when the accumulator holds none.
C19_OiRangeOfWindow ==
    pc = "reset" =>
        \A e \in Exs :
            LET w == trading_history_storage[e].OIs
                o == oi_ohlc_dict[e]
            IN  /\ w # <<>> =>
                      /\ o.oi_open = Some(w[1])
                      /\ o.oi_close = Some(w[Len(w)])
                      /\ \E i \in 1..Len(w) : o.oi_high = Some(w[i])
                      /\ \E i \in 1..Len(w) : o.oi_low = Some(w[i])
                      /\ \A i \in 1..Len(w) :
                            w[i] <= o.oi_high[1] /\ o.oi_low[1] <= w[i]
                /\ (w = <<>>) <=> (o.oi_open = None)
                /\ (w = <<>>) <=> (o.oi_high = None)
                /\ (w = <<>>) <=> (o.oi_low = None)
                /\ (w = <<>>) <=> (o.oi_close = None)

\* a window of three samples whose least is neither the first nor the last
\* has been read, after a window that was read with no sample
C19_Witness ==
    /\ pc = "reset"
    /\ LET w == trading_history_storage[BYBIT].OIs IN
          /\ Len(w) = 3
          /\ w[2] < w[1] /\ w[2] < w[3]
          /\ oi_ohlc_dict[BYBIT].oi_low = Some(w[2])
    /\ df_dict[BYBIT] # <<>>
    /\ df_dict[BYBIT][1].oi_open = None

\* --------------------------------------------------------------------- C20
\* the phase a position of get_realtime_orderbook belongs to; the re-align
\* loops and the sleep between cycles are part of the steady state
Phase(p) ==
    CASE p = "AwaitingReady" -> 1
      [] p = "Aligning"      -> 2
      [] p = "Warming"       -> 3
      [] p = "Terminal"      -> 5
      [] OTHER               -> 4

\* C20: every step leaves the scheduler in its phase, or takes it to the
\* next one of AwaitingReady, Aligning, Warming, SteadyState, or to
\* Terminal; the step from Aligning to Warming starts the task of every
\* exchange, none of which existed, and sets the warm-up timer one interval
\* ahead; no other step starts a task, a task that exists never becomes
\* unstarted again and a task that died is never run again; Warming is left
\* for the first cycle only when the timer is due, and a window is read
\* (the timestamp taken) only at the head of a cycle.
C20_PhaseOrder ==
    [][/\ Phase(pc') \in {Phase(pc), Phase(pc) + 1, Phase("Terminal")}
       /\ (pc = "Aligning" /\ pc' = "Warming") =>
             /\ \A e \in Exs : task[e] = "unborn" /\ task'[e] = "runnable"
             /\ wakeAt' = clock + Interval
       /\ \A e \in Exs :
             /\ (task[e] = "unborn" /\ task'[e] \notin {"unborn", "cancelled"}) =>
                   (pc = "Aligning" /\ pc' = "Warming")
             /\ task[e] # "unborn" => task'[e] # "unborn"
             /\ task[e] = "dead" => task'[e] \in {"dead", "cancelled"}
       /\ (pc = "Warming" /\ pc' = "Warming") => wakeAt' = wakeAt
       /\ (pc = "Warming" /\ pc' = "cycle") => clock >= wakeAt
       /\ timestamp' # timestamp => pc = "cycle"]_vars

\* a cycle is being run after a failed one, with the tasks of two exchanges
\* still those that were launched
C20_Witness ==
    /\ proc = "running"
    /\ pc = "reset"
    /\ failRun > 0
    /\ Len(EXCHANGES) = 2
    /\ \A e \in Exs : task[e] \in {"waiting", "runnable"}

\* --------------------------------------------------------------------- C21
\* C21: the buffers of all exchanges always hold the same number of
\* tickers; a step of the running program in which an upload of a buffer
\* fails leaves every buffer and the stored day as they were; and a step
\* that advances the stored day made one successful upload per exchange and
\* leaves in every buffer the one ticker appended after the buffers were
\* emptied.
C21_RolloverAtomic ==
    [][/\ \A e1, e2 \in Exs : Len(df_dict'[e1]) = Len(df_dict'[e2])
       /\ (/\ pc = "reset"
           /\ proc' = "running"
           /\ \E i \in 1..Len(calls') : ~calls'[i].ok) =>
             (df_dict' = df_dict /\ today' = today)
       /\ today' # today =>
             /\ Len(calls') = Len(EXCHANGES)
             /\ \A i \in 1..Len(calls') : calls'[i].ok
             /\ \A e \in Exs : Len(df_dict'[e]) = 1]_vars

\* a rollover of two exchanges has just failed at the upload of the second
\* buffer after the first was uploaded: both buffers still hold their
\* tickers and the day is the old one
C21_Witness ==
    /\ proc = "running"
    /\ Len(EXCHANGES) = 2
    /\ Len(calls) = 2
    /\ calls[1].ok /\ ~calls[2].ok
    /\ \A e \in Exs : df_dict[e] # <<>>
    /\ timestamp # -1
    /\ DateOf(timestamp) > today

\* --------------------------------------------------------------------- C22
\* a ticker stamped at second c or later is in the buffer of every exchange
AppendedSince(c) ==
    \A e \in Exs : \E i \in 1..Len(df_dict[e]) : df_dict[e][i].timestamp >= c

\* the scheduler is past the launch of the tasks at the interval boundary c,
\* no cycle has failed since the last one that succeeded, and the clock can
\* reach the second its pending timer is due
AtBoundary(c) ==
    /\ proc = "running"
    /\ pc \in {"Warming", "cycle", "reset", "Sleeping", "Realigning"}
    /\ clock = c
    /\ failRun = 0
    /\ wakeAt <= MaxClock

\* C22: under the scheduling of the event loop, (1) whenever the order-book
\* and trade stores of every exchange hold something while the scheduler
\* waits for the snapshots or for the alignment and the clock can still
\* reach an interval boundary, the scheduler eventually is in neither wait;
\* (2) whenever the scheduler is past the launch at an interval boundary with
\* no failed cycle pending, eventually a ticker stamped at that boundary or
\* later is in the buffer of every exchange, or a cycle has failed, or the
\* process has ended.
C22_SchedulerLiveness ==
    /\ (/\ proc = "running"
        /\ pc \in {"AwaitingReady", "Aligning"}
        /\ \A e \in Exs : store_dict[e].orderbook # <<>> /\ store_dict[e].trade # 0
        /\ clock + Interval <= MaxClock)
          ~> (pc \notin {"AwaitingReady", "Aligning"})
    /\ \A c \in { t \in 0..MaxClock : t % Interval = 0 } :
          AtBoundary(c) ~> (AppendedSince(c) \/ failRun > 0 \/ proc = "exited")

\* the second boundary after the launch was followed by the append of a
\* ticker for each of two exchanges while the tasks wait on their feeds
C22_Witness ==
    /\ proc = "running"
    /\ Len(EXCHANGES) = 2
    /\ pc = "Sleeping"
    /\ failRun = 0
    /\ \A e \in Exs : task[e] = "waiting"
    /\ \A e \in Exs : Len(df_dict[e]) >= 1 /\ df_dict[e][Len(df_dict[e])].timestamp = 2 * Interval

\* --------------------------------------------------------------------- C23
\* the step calls save_ticker: the end of a cycle, the exit of the process,
\* or the handler of a task that dies
MakesCalls ==
    /\ calls' # <<>>
    /\ \/ pc = "reset"
       \/ proc = "running" /\ proc' = "exited"
       \/ \E e \in Exs : task[e] = "runnable" /\ task'[e] = "dead"

\* C23: no step passes a buffer to an upload for an exchange and a day for
\* which the sink already holds a day file with tickers, and no step makes
\* two uploads for one exchange and one day of which the earlier delivered
\* tickers.
C23_NoSecondFlush ==
    [][/\ MakesCalls =>
             \A j \in 1..Len(calls') :
                ~\E b \in gcs :
                    /\ b.exchange = calls'[j].exchange
                    /\ b.day = calls'[j].day
                    /\ b.tickers # <<>>
       /\ \A i, j \in 1..Len(calls') :
             (/\ i < j
              /\ calls'[i].exchange = calls'[j].exchange
              /\ calls'[i].day = calls'[j].day
              /\ calls'[i].ok)
                => calls'[i].tickers = <<>>]_vars

\* --------------------------------------------------------------------- C24
\* C24: every ticker in the buffer of any exchange is stamped on the stored
\* day, and every ticker passed to an upload is stamped on the day the
\* upload is labelled with.
C24_BufferOfToday ==
    /\ \A e \in Exs : \A i \in 1..Len(df_dict[e]) :
          DateOf(df_dict[e][i].timestamp) = today
    /\ \A k \in 1..Len(calls) : \A i \in 1..Len(calls[k].tickers) :
          DateOf(calls[k].tickers[i].timestamp) = calls[k].day

\* the rollover of a later day failed at an upload that was passed the
\* tickers of the stored day: the buffers still hold them, the day is the
\* old one while the clock is in the next
C24_Witness ==
    /\ proc = "running"
    /\ DateOf(clock) > today
    /\ \E k \in 1..Len(calls) :
          /\ ~calls[k].ok
          /\ calls[k].tickers # <<>>
          /\ calls[k].day = today
    /\ \A e \in Exs : df_dict[e] # <<>>
    /\ failRun > 0

\* --------------------------------------------------------------------- C25
\* C25: a cycle that fails and leaves the program running (the step from
\* the position after the read that counts a failure) appends no ticker
\* and leaves the accumulator of every exchange as the tasks had filled it.
C25_FailedCycleKeepsWindow ==
    [][(pc = "reset" /\ proc' = "running" /\ failRun' = failRun + 1) =>
          /\ df_dict' = df_dict
          /\ trading_history_storage' = trading_history_storage]_vars

====
